---- MODULE Spec2Model ----
(***************************************************************************)
(* The DynamoDB persistence layer of the kinesis client library            *)
(* (src/dynamodb.go): table validation and provisioning, checkpoint       *)
(* writes and batched shard reads, run by concurrent workers against one   *)
(* shared table.  Every call to the store is one atomic step.              *)
(***************************************************************************)
EXTENDS Integers, Sequences, FiniteSets, TLC

VARIABLES
    table,          \* the store's table descriptor (shared by all workers)
    items,          \* the store's items: shard id -> item or NoItem
    pc,             \* worker -> position in the operation it runs
    op,             \* worker -> the operation invoked last
    args,           \* worker -> arguments of that invocation
    err,            \* worker -> err of that invocation (named result)
    shardRecords,   \* worker -> shardRecords of GetShardData (named result)
    keysToProcess,  \* worker -> keysToProcess of GetShardData
    hist,           \* worker -> store calls issued by the invocation (history);
                    \*   of the BatchGetItem calls the last one only
    ops,            \* number of invocations started
    dirty,          \* worker -> requested shards written since its GetShardData
                    \*   began (history)
    stale,          \* worker -> items of requested shards that were overwritten
                    \*   when its GetShardData began, and not written again
                    \*   since (history)
    lastPut,        \* shard -> item of the PutItem request applied last (history)
    written,        \* the items of the PutItem requests applied (history)
    output,         \* the descriptor isValidTableSchema is called with on its own
    validSchema     \* the results of that call: <<>> before it, <<validSchema>> after

schemaVars == <<output, validSchema>>

vars == <<table, items, pc, op, args, err, shardRecords, keysToProcess,
          hist, ops, dirty, stale, lastPut, written, output, validSchema>>

---------------------------------------------------------------------------
(* Bounds *)

MaxOps == 2         \* invocations, of all workers together
MaxCalls == 3       \* BatchGetItem calls per GetShardData invocation
MaxPolls == 3       \* DescribeTable polls per readiness wait
MaxLease == 12      \* |e| of the integer lease expirations the claims range over
MaxDefs == 2        \* attribute definitions, and key-schema entries, of a descriptor

Workers == {"w1", "w2"}
Shards == {"A", "B", "C"}
\* the seqNum and leaseExpiration arguments Checkpoint is called with, the
\* lease expiration as the decimal string the caller makes of its integer
Progress == {[seqNum |-> "seq1", leaseExpiration |-> <<"1", "0">>],
             [seqNum |-> "seq2", leaseExpiration |-> <<"-", "3">>]}
\* the shard lists GetShardData is called with
ShardLists == {<<>>, <<"A">>, <<"A", "B">>, <<"A", "B", "C">>}

TableName == "kcl"

---------------------------------------------------------------------------
(* Values *)

NoErr == [aws |-> FALSE, code |-> "nil"]
AwsErr(c) == [aws |-> TRUE, code |-> c]
PlainErr(m) == [aws |-> FALSE, code |-> m]

EmptyMap == [k \in {} |-> {}]
NoItem == [k \in {} |-> {}]

Range(s) == {s[i] : i \in 1..Len(s)}

\* util: the string a *string points to ("" for nil); strings here are non-nil
stringPtrToString(p) == p

\* awsutil.StringValue of a *string: the %q rendering of the string
StringValue(p) == "\"" \o p \o "\""

---------------------------------------------------------------------------
(* The table descriptor and the schema check *)

NoTable == [exists |-> FALSE, AttributeDefinitions |-> <<>>, KeySchema |-> <<>>,
            TableStatus |-> ""]

\* the CreateTableInput of createTable
tableDefinition ==
    [AttributeDefinitions |-> <<[AttributeName |-> "shard_id", AttributeType |-> "S"]>>,
     KeySchema |-> <<[AttributeName |-> "shard_id", KeyType |-> "HASH"]>>]

ValidTable(status) ==
    [exists |-> TRUE,
     AttributeDefinitions |-> tableDefinition.AttributeDefinitions,
     KeySchema |-> tableDefinition.KeySchema,
     TableStatus |-> status]

\* a table somebody else made, with a range key next to shard_id
RangeKeyTable ==
    [exists |-> TRUE,
     AttributeDefinitions |-> <<[AttributeName |-> "shard_id", AttributeType |-> "S"],
                                [AttributeName |-> "seq", AttributeType |-> "N"]>>,
     KeySchema |-> <<[AttributeName |-> "shard_id", KeyType |-> "HASH"],
                     [AttributeName |-> "seq", KeyType |-> "RANGE"]>>,
     TableStatus |-> "ACTIVE"]

\* a DescribeTableOutput: nil, or one whose Table is nil, or one with a Table
NilOutput == [nil |-> TRUE, tableNil |-> TRUE, Table |-> NoTable]
NilTableOutput == [nil |-> FALSE, tableNil |-> TRUE, Table |-> NoTable]
Output(t) == [nil |-> FALSE, tableNil |-> FALSE, Table |-> t]

\* a check of the first attribute definition and the first key-schema entry
\* alone, whatever follows them
isValidTableSchemaFirstEntries(o) ==
    CASE o.nil -> FALSE
      [] o.tableNil -> FALSE
      [] Len(o.Table.AttributeDefinitions) < 1 -> FALSE
      [] StringValue(o.Table.AttributeDefinitions[1].AttributeName) # "\"shard_id\"" -> FALSE
      [] StringValue(o.Table.AttributeDefinitions[1].AttributeType) # "\"S\"" -> FALSE
      [] Len(o.Table.KeySchema) < 1 -> FALSE
      [] StringValue(o.Table.KeySchema[1].AttributeName) # "\"shard_id\"" -> FALSE
      [] StringValue(o.Table.KeySchema[1].KeyType) # "\"HASH\"" -> FALSE
      [] OTHER -> TRUE

\* isValidTableSchema: the cases of its switch, in their order
isValidTableSchema(o) ==
    CASE o.nil -> FALSE
      [] o.tableNil -> FALSE
      [] Len(o.Table.AttributeDefinitions) # 1 -> FALSE
      [] StringValue(o.Table.AttributeDefinitions[1].AttributeName) # "\"shard_id\"" -> FALSE
      [] StringValue(o.Table.AttributeDefinitions[1].AttributeType) # "\"S\"" -> FALSE
      [] Len(o.Table.KeySchema) # 1 -> FALSE
      [] StringValue(o.Table.KeySchema[1].AttributeName) # "\"shard_id\"" -> FALSE
      [] StringValue(o.Table.KeySchema[1].KeyType) # "\"HASH\"" -> FALSE
      [] OTHER -> TRUE

\* the descriptors the schema check is tried on: nil, one without a Table,
\* and every Table of up to MaxDefs attribute definitions and key-schema
\* entries over these names and types
SchemaNames == {"shard_id", "seq"}
AttributeTypes == {"S", "N"}
KeyTypes == {"HASH", "RANGE"}
SeqsUpTo(S, n) == UNION {[1..k -> S] : k \in 0..n}
Descriptors ==
    {NilOutput, NilTableOutput}
    \cup {Output([exists |-> TRUE, AttributeDefinitions |-> a, KeySchema |-> k,
                  TableStatus |-> "ACTIVE"]) :
             a \in SeqsUpTo([AttributeName : SchemaNames, AttributeType : AttributeTypes], MaxDefs),
             k \in SeqsUpTo([AttributeName : SchemaNames, KeyType : KeyTypes], MaxDefs)}

---------------------------------------------------------------------------
(* Items and shard records *)

\* a write of the progress alone: shard_id and checkpoint, nothing else
attributesPartial(shardID, seqNum, leaseExpiration, workerID) ==
    [shard_id |-> [S |-> shardID], checkpoint |-> [S |-> seqNum]]

\* the attributes map Checkpoint builds: all four fields, lease_expiration as N
attributes(shardID, seqNum, leaseExpiration, workerID) ==
    [shard_id |-> [S |-> shardID],
     checkpoint |-> [S |-> seqNum],
     lease_expiration |-> [N |-> leaseExpiration],
     worker_id |-> [S |-> workerID]]

\* a guarded write: the item stored must be held by the same worker
putItemInputGuarded(shardID, seqNum, leaseExpiration, workerID) ==
    [TableName |-> TableName,
     Item |-> [shard_id |-> [S |-> shardID], checkpoint |-> [S |-> seqNum],
               lease_expiration |-> [N |-> leaseExpiration],
               worker_id |-> [S |-> workerID]],
     Expected |-> [a \in {"worker_id"} |-> [S |-> workerID]]]

\* the PutItemInput Checkpoint builds: table name and item, no condition
putItemInput(shardID, seqNum, leaseExpiration, workerID) ==
    [TableName |-> TableName,
     Item |-> attributes(shardID, seqNum, leaseExpiration, workerID),
     Expected |-> EmptyMap]

Usable(t) == t.exists /\ t.TableStatus = "ACTIVE"

\* the key the requests of this layer carry, shard_id alone, is a key of the
\* table: the store rejects a request whose key misses a key attribute
KeyMatches(t) == {t.KeySchema[i].AttributeName : i \in 1..Len(t.KeySchema)} = {"shard_id"}

\* an item meets the Expected map of a request: every attribute named there
\* has the expected value (an item that does not exist meets it)
Meets(item, expected) ==
    item = NoItem \/ \A a \in DOMAIN expected : item[a] = expected[a]

\* d.db.PutItem: replaces the whole item of the key; fault is a failure of
\* the service itself
PutItem(t, its, input, fault) ==
    CASE fault -> [err |-> AwsErr("InternalServerError"), items |-> its]
      [] ~Usable(t) -> [err |-> AwsErr("ResourceNotFoundException"), items |-> its]
      [] ~KeyMatches(t) -> [err |-> AwsErr("ValidationException"), items |-> its]
      [] ~Meets(its[input.Item.shard_id.S], input.Expected) ->
             [err |-> AwsErr("ConditionalCheckFailedException"), items |-> its]
      [] OTHER -> [err |-> NoErr,
                   items |-> [its EXCEPT ![input.Item.shard_id.S] = input.Item]]

Digits == <<"0", "1", "2", "3", "4", "5", "6", "7", "8", "9">>
IsDigit(c) == \E i \in 1..Len(Digits) : Digits[i] = c
DigitVal(c) == (CHOOSE i \in 1..Len(Digits) : Digits[i] = c) - 1

RECURSIVE DigitsVal(_)
DigitsVal(s) ==
    IF s = <<>> THEN 0 ELSE 10 * DigitsVal(SubSeq(s, 1, Len(s) - 1)) + DigitVal(s[Len(s)])

\* a parse that reads the digits and loses the sign
ParseIntUnsigned(s) ==
    LET body == SelectSeq(s, IsDigit)
    IN  IF body = <<>> THEN 0 ELSE DigitsVal(body)

\* strconv.ParseInt(s, 10, 64) with its error dropped: 0 for a string that is
\* no decimal integer (the strings of the model stay far below 64 bits)
ParseInt(s) ==
    LET signed == s # <<>> /\ s[1] \in {"+", "-"}
        body == IF signed THEN Tail(s) ELSE s
    IN  IF body = <<>> \/ \E i \in 1..Len(body) : ~IsDigit(body[i]) THEN 0
        ELSE IF signed /\ s[1] = "-" THEN 0 - DigitsVal(body)
        ELSE DigitsVal(body)

\* the shardRecord parseShardData makes of one returned item
shardRecord(record) ==
    [ShardID |-> stringPtrToString(record["shard_id"].S),
     Checkpoint |-> stringPtrToString(record["checkpoint"].S),
     LeaseExpiration |-> ParseInt(stringPtrToString(record["lease_expiration"].N)),
     WorkerID |-> stringPtrToString(record["worker_id"].S)]

NilMap == [nil |-> TRUE, tables |-> EmptyMap]
Map(m) == [nil |-> FALSE, tables |-> m]

\* a parse that makes a zero-valued record of every key reported unprocessed
parseShardDataZeroFill(resp) ==
    LET records == IF resp.Responses.nil \/ TableName \notin DOMAIN resp.Responses.tables
                   THEN {} ELSE resp.Responses.tables[TableName]
        pending == IF resp.UnprocessedKeys.nil
                      \/ TableName \notin DOMAIN resp.UnprocessedKeys.tables
                   THEN {} ELSE resp.UnprocessedKeys.tables[TableName].Keys
    IN  [s \in {r["shard_id"].S : r \in records} \cup pending |->
            IF \E r \in records : r["shard_id"].S = s
            THEN shardRecord(CHOOSE r \in records : r["shard_id"].S = s)
            ELSE [ShardID |-> s, Checkpoint |-> "", LeaseExpiration |-> 0, WorkerID |-> ""]]

\* parseShardData: no records for a nil Responses or one without the table
parseShardData(resp) ==
    IF resp.Responses.nil THEN EmptyMap
    ELSE IF TableName \notin DOMAIN resp.Responses.tables THEN EmptyMap
    ELSE LET records == resp.Responses.tables[TableName]
         IN  [s \in {stringPtrToString(r["shard_id"].S) : r \in records} |->
                 shardRecord(CHOOSE r \in records : stringPtrToString(r["shard_id"].S) = s)]

\* a dynamodb.KeysAndAttributes (the projection names all four fields)
KeysAndAttributes(keys, consistentRead) ==
    [Keys |-> keys, ConsistentRead |-> consistentRead]

\* a first request for the first shard of the list alone
initialKeysFirstShard(shards) ==
    Map([t \in {TableName} |->
            KeysAndAttributes(IF shards = <<>> THEN {} ELSE {shards[1]}, TRUE)])

\* a first request that does not ask for consistent reads
initialKeysEventuallyConsistent(shards) ==
    Map([t \in {TableName} |-> KeysAndAttributes(Range(shards), FALSE)])

\* GetShardData: keysToProcess of the first request, one key per requested
\* shard, ConsistentRead true
initialKeys(shards) == Map([t \in {TableName} |-> KeysAndAttributes(Range(shards), TRUE)])

\* GetShardData: the condition of its loop
loopCond(k) == ~k.nil /\ Cardinality(DOMAIN k.tables) > 0

\* GetShardData: the records of one response merged into shardRecords
mergeRecords(acc, records) ==
    [s \in DOMAIN acc \cup DOMAIN records |->
        IF s \in DOMAIN records THEN records[s] ELSE acc[s]]

\* a loop that takes every response for the last one
nextKeysDropped(out) == Map(EmptyMap)

\* GetShardData: the keys of the next request
nextKeys(out) == out.UnprocessedKeys

\* d.db.BatchGetItem: services some of the requested keys (at least one,
\* when it succeeds) and reports the others unprocessed, in the form of the
\* request; an item that does not exist is not in the response.  A consistent
\* read of a key returns the item stored; a read that is not may return any
\* item the key held before (old: the items ever stored)
BatchGetItem(t, its, old, requestItems) ==
    LET keys == requestItems.tables[TableName].Keys
        consistentRead == requestItems.tables[TableName].ConsistentRead
        versions(k) == IF consistentRead THEN {its[k]}
                       ELSE {its[k]} \cup {i \in old : i["shard_id"].S = k}
        reads(serviced) ==
            IF consistentRead THEN {[k \in serviced |-> its[k]]}
            ELSE {f \in [serviced -> UNION {versions(k) : k \in serviced}] :
                     \A k \in serviced : f[k] \in versions(k)}
        found(f) == {f[k] : k \in DOMAIN f} \ {NoItem}
        responses(f) ==
            {Map([n \in {TableName} |-> found(f)])}
            \cup (IF found(f) = {} THEN {NilMap, Map(EmptyMap)} ELSE {})
        unprocessed(serviced) ==
            IF keys \ serviced # {}
            THEN {Map([n \in {TableName} |->
                          KeysAndAttributes(keys \ serviced, consistentRead)])}
            ELSE {NilMap, Map(EmptyMap)}
    IN  (IF ~Usable(t) THEN {[err |-> AwsErr("ResourceNotFoundException"),
                              Responses |-> NilMap, UnprocessedKeys |-> NilMap]}
         ELSE IF ~KeyMatches(t) THEN {[err |-> AwsErr("ValidationException"),
                                       Responses |-> NilMap, UnprocessedKeys |-> NilMap]}
         ELSE {[err |-> NoErr, Responses |-> r, UnprocessedKeys |-> u] :
                  <<r, u>> \in UNION {responses(f) \X unprocessed(DOMAIN f) :
                                        f \in UNION {reads(sv) :
                                           sv \in {x \in SUBSET keys : keys = {} \/ x # {}}}}})
        \cup {[err |-> AwsErr("InternalServerError"),
               Responses |-> NilMap, UnprocessedKeys |-> NilMap]}

\* a store behind d.db that answers without failure and services no key:
\* every requested key comes back unprocessed
BatchGetItemNoneServiced(requestItems) ==
    {[err |-> NoErr, Responses |-> Map([n \in {TableName} |-> {}]),
      UnprocessedKeys |-> requestItems]}

UnprocessedOf(out) ==
    IF out.UnprocessedKeys.nil \/ TableName \notin DOMAIN out.UnprocessedKeys.tables
    THEN {} ELSE out.UnprocessedKeys.tables[TableName].Keys

---------------------------------------------------------------------------
(* The store: what each call can answer in a given state *)

\* d.db.DescribeTable: the descriptor, "not found", or a failure of the service
DescribeTable(t) ==
    (IF t.exists THEN {[err |-> NoErr, out |-> Output(t)]}
                 ELSE {[err |-> AwsErr("ResourceNotFoundException"), out |-> NilOutput]})
    \cup {[err |-> AwsErr("InternalServerError"), out |-> NilOutput]}

\* d.db.CreateTable: creates the table in status CREATING unless one exists
CreateTable(t, def) ==
    (IF t.exists
       THEN {[err |-> AwsErr("ResourceInUseException"), table |-> t]}
       ELSE {[err |-> NoErr,
              table |-> [exists |-> TRUE,
                         AttributeDefinitions |-> def.AttributeDefinitions,
                         KeySchema |-> def.KeySchema,
                         TableStatus |-> "CREATING"]]})
    \cup {[err |-> AwsErr("InternalServerError"), table |-> t]}

---------------------------------------------------------------------------
(* History of the store calls of an invocation *)

\* n is the number of the call among the calls of the invocation; changed is
\* the set of shards whose stored item the call replaced by another one
Event(n, call, e, status, keys, unprocessed) ==
    [n |-> n, call |-> call, err |-> e, status |-> status, keys |-> keys,
     unprocessed |-> unprocessed, changed |-> {}]

DescribeEvent(n, call, res) ==
    Event(n, call, res.err, IF res.err = NoErr THEN res.out.Table.TableStatus ELSE "",
          {}, {})

Calls(w, call) == {i \in 1..Len(hist[w]) : hist[w][i].call = call}
NumCalls(w) == IF hist[w] = <<>> THEN 0 ELSE hist[w][Len(hist[w])].n

---------------------------------------------------------------------------
(* ValidateTable *)

\* findTable: the lookup's failure, or the schema check on its output
findTable(res) ==
    IF res.err # NoErr THEN res.err
    ELSE IF ~isValidTableSchema(res.out) THEN PlainErr("dynamo: invalid table schema")
    ELSE NoErr

\* creation on any failure the service reports
shouldCreateTableAnyAws(e) == e.aws

\* ValidateTable: createTable is called for an awserr.Error with this code only
shouldCreateTable(e) == e.aws /\ e.code = "ResourceNotFoundException"

\* a wait that any answered poll ends, whatever the status
isActiveAnyStatus(res) == res.err = NoErr

\* a wait that a failed poll ends too
isActiveOrFailed(res) == res.err # NoErr \/ res.out.Table.TableStatus = "ACTIVE"

\* a comparison with a status string the store never reports
isActiveMisspelled(res) ==
    res.err = NoErr /\ stringPtrToString(res.out.Table.TableStatus) = "Active"

\* validateTableCreated: the value of isActive after one poll
isActive(res) ==
    res.err = NoErr /\ stringPtrToString(res.out.Table.TableStatus) = "ACTIVE"

\* a createTable that goes on to the readiness wait whatever CreateTable said
afterCreateTableAlwaysWait(e) == "validateTableCreated"

\* createTable: after CreateTable, return its err, or go on to
\* validateTableCreated when there is none
afterCreateTable(e) == IF e # NoErr THEN "done" ELSE "validateTableCreated"

CanInvoke(w) == pc[w] \in {"idle", "done"} /\ ops < MaxOps

\* a worker validates the table once, when it starts
AtStartup(w) == pc[w] = "idle"

Invoke(w, name, a) ==
    /\ op' = [op EXCEPT ![w] = name]
    /\ args' = [args EXCEPT ![w] = a]
    /\ ops' = ops + 1

NoArgs == [shardID |-> "", seqNum |-> "", leaseExpiration |-> <<>>, workerID |-> "",
           shards |-> <<>>]

\* ValidateTable up to the return of findTable
ValidateTable(w) ==
    /\ CanInvoke(w)
    /\ AtStartup(w)
    /\ Invoke(w, "ValidateTable", NoArgs)
    /\ \E res \in DescribeTable(table) :
         /\ hist' = [hist EXCEPT ![w] = <<DescribeEvent(1, "findTable", res)>>]
         /\ err' = [err EXCEPT ![w] = findTable(res)]
         /\ pc' = [pc EXCEPT ![w] = IF shouldCreateTable(findTable(res))
                                     THEN "createTable" ELSE "done"]
    /\ shardRecords' = [shardRecords EXCEPT ![w] = EmptyMap]
    /\ keysToProcess' = [keysToProcess EXCEPT ![w] = NilMap]
    /\ UNCHANGED <<table, items, dirty, stale, lastPut, written, schemaVars>>

\* createTable up to the call of validateTableCreated
createTable(w) ==
    /\ pc[w] = "createTable"
    /\ \E res \in CreateTable(table, tableDefinition) :
         /\ table' = res.table
         /\ hist' = [hist EXCEPT ![w] = Append(@, Event(Len(@) + 1, "CreateTable", res.err, "", {}, {}))]
         /\ err' = [err EXCEPT ![w] = res.err]
         /\ pc' = [pc EXCEPT ![w] = afterCreateTable(res.err)]
    /\ UNCHANGED <<items, op, args, shardRecords, keysToProcess, ops, dirty, stale, lastPut, written,
                   schemaVars>>

\* one iteration of the loop of validateTableCreated
validateTableCreated(w) ==
    /\ pc[w] = "validateTableCreated"
    /\ Cardinality(Calls(w, "poll")) < MaxPolls
    /\ \E res \in DescribeTable(table) :
         /\ hist' = [hist EXCEPT ![w] = Append(@, DescribeEvent(Len(@) + 1, "poll", res))]
         /\ pc' = [pc EXCEPT ![w] = IF isActive(res) THEN "done"
                                     ELSE "validateTableCreated"]
    /\ UNCHANGED <<table, items, op, args, err, shardRecords, keysToProcess, ops, dirty, stale,
                   lastPut, written, schemaVars>>

\* the history after one more poll of a wait that goes on for ever: the
\* polls past MaxPolls take the place of the last poll recorded
pollHistory(h, res) ==
    IF Cardinality({i \in 1..Len(h) : h[i].call = "poll"}) < MaxPolls
    THEN Append(h, DescribeEvent(Len(h) + 1, "poll", res))
    ELSE [h EXCEPT ![Len(h)] = DescribeEvent(Len(h), "poll", res)]

\* one iteration of the loop of validateTableCreated, as often as it takes;
\* answered tells whether the poll is one the store answers or one that fails
validateTableCreatedUnbounded(w, answered) ==
    /\ pc[w] = "validateTableCreated"
    /\ \E res \in {r \in DescribeTable(table) : (r.err = NoErr) = answered} :
         /\ hist' = [hist EXCEPT ![w] = pollHistory(@, res)]
         /\ pc' = [pc EXCEPT ![w] = IF isActive(res) THEN "done"
                                     ELSE "validateTableCreated"]
    /\ UNCHANGED <<table, items, op, args, err, shardRecords, keysToProcess, ops, dirty, stale,
                   lastPut, written, schemaVars>>

\* the store finishes creating the table
TableBecomesActive ==
    /\ table.exists /\ table.TableStatus = "CREATING"
    /\ table' = [table EXCEPT !.TableStatus = "ACTIVE"]
    /\ UNCHANGED <<items, pc, op, args, err, shardRecords, keysToProcess, hist, ops, dirty, stale,
                   lastPut, written, schemaVars>>

---------------------------------------------------------------------------
(* Checkpoint and GetShardData *)

\* the item a Checkpoint call asks the store to hold
ItemOf(a) ==
    [shard_id |-> [S |-> a.shardID], checkpoint |-> [S |-> a.seqNum],
     lease_expiration |-> [N |-> a.leaseExpiration], worker_id |-> [S |-> a.workerID]]

\* a Checkpoint that drops the err of PutItem
checkpointErrDropped(e) == NoErr

\* Checkpoint: the err of PutItem is assigned to the named result and returned
checkpointErr(e) == e

\* Checkpoint: one PutItem, its err returned as it is
Checkpoint(w, shardID, seqNum, leaseExpiration, workerID) ==
    LET a == [NoArgs EXCEPT !.shardID = shardID, !.seqNum = seqNum,
                            !.leaseExpiration = leaseExpiration, !.workerID = workerID]
    IN
    /\ CanInvoke(w)
    /\ Invoke(w, "Checkpoint", a)
    /\ \E fault \in BOOLEAN :
         LET res == PutItem(table, items,
                            putItemInput(shardID, seqNum, leaseExpiration, workerID), fault)
             applied == ~fault /\ Usable(table) /\ KeyMatches(table)
         IN  /\ items' = res.items
             /\ err' = [err EXCEPT ![w] = checkpointErr(res.err)]
             /\ hist' = [hist EXCEPT ![w] =
                   <<[Event(1, "PutItem",
                            IF fault THEN AwsErr("InternalServerError")
                            ELSE IF ~Usable(table) THEN AwsErr("ResourceNotFoundException")
                            ELSE IF ~KeyMatches(table) THEN AwsErr("ValidationException")
                            ELSE NoErr,
                            table.TableStatus, {shardID}, {})
                        EXCEPT !.changed = {s \in Shards : res.items[s] # items[s]}]>>]
             /\ lastPut' = IF applied THEN [lastPut EXCEPT ![shardID] = ItemOf(a)]
                           ELSE lastPut
             /\ written' = IF applied THEN written \cup {ItemOf(a)} ELSE written
             /\ dirty' = [v \in Workers |->
                             IF applied /\ op[v] = "GetShardData" /\ v # w
                             THEN dirty[v] \cup ({shardID} \cap Range(args[v].shards))
                             ELSE dirty[v]]
             /\ stale' = [v \in Workers |->
                             IF applied /\ op[v] = "GetShardData" /\ v # w
                             THEN stale[v] \ {ItemOf(a)}
                             ELSE IF v = w THEN {} ELSE stale[v]]
    /\ pc' = [pc EXCEPT ![w] = "done"]
    /\ shardRecords' = [shardRecords EXCEPT ![w] = EmptyMap]
    /\ keysToProcess' = [keysToProcess EXCEPT ![w] = NilMap]
    /\ UNCHANGED <<table, schemaVars>>

\* the position after keysToProcess was set to k: in the loop while its
\* condition holds, returned otherwise
afterKeys(k) == IF loopCond(k) THEN "loop" ELSE "done"

\* GetShardData up to the first call of its loop
GetShardData(w, shards) ==
    /\ CanInvoke(w)
    /\ Invoke(w, "GetShardData", [NoArgs EXCEPT !.shards = shards])
    /\ shardRecords' = [shardRecords EXCEPT ![w] = EmptyMap]
    /\ keysToProcess' = [keysToProcess EXCEPT ![w] = initialKeys(shards)]
    /\ err' = [err EXCEPT ![w] = NoErr]
    /\ hist' = [hist EXCEPT ![w] = <<>>]
    /\ pc' = [pc EXCEPT ![w] = afterKeys(initialKeys(shards))]
    /\ dirty' = [dirty EXCEPT ![w] = {}]
    /\ stale' = [stale EXCEPT ![w] =
                    {i \in written : /\ i["shard_id"].S \in Range(shards)
                                     /\ i # items[i["shard_id"].S]}]
    /\ UNCHANGED <<table, items, lastPut, written, schemaVars>>

\* one iteration of the loop of GetShardData, up to the next call or the
\* return: a failed call returns at once with shardRecords as they are; after
\* a successful one the log line evaluates len(*keysToProcess), which panics
\* on a nil UnprocessedKeys
GetShardDataIteration(w, outs) ==
    /\ pc[w] = "loop"
    /\ loopCond(keysToProcess[w])
    /\ NumCalls(w) < MaxCalls
    /\ \E out \in outs :
         /\ hist' = [hist EXCEPT ![w] =
               <<Event(NumCalls(w) + 1, "BatchGetItem", out.err, "",
                       keysToProcess[w].tables[TableName].Keys, UnprocessedOf(out))>>]
         /\ err' = [err EXCEPT ![w] = out.err]
         /\ IF out.err # NoErr
              THEN /\ pc' = [pc EXCEPT ![w] = "done"]
                   /\ UNCHANGED <<shardRecords, keysToProcess>>
              ELSE /\ shardRecords' = [shardRecords EXCEPT ![w] =
                                          mergeRecords(@, parseShardData(out))]
                   /\ keysToProcess' = [keysToProcess EXCEPT ![w] = nextKeys(out)]
                   /\ pc' = [pc EXCEPT ![w] = IF nextKeys(out).nil THEN "panic"
                                               ELSE afterKeys(nextKeys(out))]
    /\ UNCHANGED <<table, items, op, args, ops, dirty, stale, lastPut, written, schemaVars>>

\* an iteration against the store
GetShardDataLoop(w) ==
    GetShardDataIteration(w, BatchGetItem(table, items, written, keysToProcess[w]))

\* an iteration against a store that services no key of a request
GetShardDataLoopNoneServiced(w) ==
    /\ pc[w] = "loop"
    /\ keysToProcess[w].tables[TableName].Keys # {}
    /\ GetShardDataIteration(w, BatchGetItemNoneServiced(keysToProcess[w]))

---------------------------------------------------------------------------

\* the shards an existing table may hold an item of, left by an earlier run
InitialShards == {{}, {"A"}, {"A", "B", "C"}}
InitialItem(s) ==
    ItemOf([NoArgs EXCEPT !.shardID = s, !.seqNum = "seq0",
                          !.leaseExpiration = <<"7">>, !.workerID = "w0"])

Init ==
    /\ table \in {NoTable, ValidTable("ACTIVE"), RangeKeyTable}
    /\ \E held \in InitialShards :
         items = [s \in Shards |-> IF Usable(table) /\ isValidTableSchema(Output(table))
                                       /\ s \in held
                                    THEN InitialItem(s) ELSE NoItem]
    /\ pc = [w \in Workers |-> "idle"]
    /\ op = [w \in Workers |-> "none"]
    /\ args = [w \in Workers |-> NoArgs]
    /\ err = [w \in Workers |-> NoErr]
    /\ shardRecords = [w \in Workers |-> EmptyMap]
    /\ keysToProcess = [w \in Workers |-> NilMap]
    /\ hist = [w \in Workers |-> <<>>]
    /\ ops = 0
    /\ dirty = [w \in Workers |-> {}]
    /\ stale = [w \in Workers |-> {}]
    /\ lastPut = items
    /\ written = {items[s] : s \in Shards} \ {NoItem}
    /\ output = NilOutput
    /\ validSchema = <<>>

Next ==
    \/ \E w \in Workers : ValidateTable(w)
    \/ \E w \in Workers : createTable(w)
    \/ \E w \in Workers : validateTableCreated(w)
    \/ TableBecomesActive
    \/ \E w \in Workers, s \in Shards, p \in Progress :
          Checkpoint(w, s, p.seqNum, p.leaseExpiration, w)
    \/ \E w \in Workers, l \in ShardLists : GetShardData(w, l)
    \/ \E w \in Workers : GetShardDataLoop(w)

Spec == Init /\ [][Next]_vars

\* the workers against any store: one that may service no key of a batch too
AnyStoreNext ==
    \/ Next
    \/ \E w \in Workers : GetShardDataLoopNoneServiced(w)

AnyStoreSpec == Init /\ [][AnyStoreNext]_vars

---------------------------------------------------------------------------
(* Startup alone, with a readiness wait of any length.  Fairness: the store
   finishes creating a table it accepted, and a worker in the wait keeps
   polling and is answered again and again. *)

LiveNext ==
    \/ \E w \in Workers : ValidateTable(w)
    \/ \E w \in Workers : createTable(w)
    \/ \E w \in Workers, answered \in BOOLEAN : validateTableCreatedUnbounded(w, answered)
    \/ TableBecomesActive

LiveSpec ==
    /\ Init
    /\ [][LiveNext]_vars
    /\ WF_vars(TableBecomesActive)
    /\ \A w \in Workers : WF_vars(validateTableCreatedUnbounded(w, TRUE))

---------------------------------------------------------------------------
(* The schema check on its own: isValidTableSchema applied to a descriptor *)

SchemaInit ==
    /\ output \in Descriptors
    /\ validSchema = <<>>
    /\ table = NoTable
    /\ items = [s \in Shards |-> NoItem]
    /\ pc = [w \in Workers |-> "idle"]
    /\ op = [w \in Workers |-> "none"]
    /\ args = [w \in Workers |-> NoArgs]
    /\ err = [w \in Workers |-> NoErr]
    /\ shardRecords = [w \in Workers |-> EmptyMap]
    /\ keysToProcess = [w \in Workers |-> NilMap]
    /\ hist = [w \in Workers |-> <<>>]
    /\ ops = 0
    /\ dirty = [w \in Workers |-> {}]
    /\ stale = [w \in Workers |-> {}]
    /\ lastPut = items
    /\ written = {}

CheckSchema ==
    /\ validSchema = <<>>
    /\ validSchema' = <<isValidTableSchema(output)>>
    /\ UNCHANGED <<table, items, pc, op, args, err, shardRecords, keysToProcess,
                   hist, ops, dirty, stale, lastPut, written, output>>

SchemaNext == CheckSchema

SchemaSpec == SchemaInit /\ [][SchemaNext]_vars

---------------------------------------------------------------------------
(* Properties *)

Done(w, name) == pc[w] = "done" /\ op[w] = name
Requested(w) == Range(args[w].shards)
NotFound == AwsErr("ResourceNotFoundException")
Unavailable == AwsErr("InternalServerError")
Fields == {"shard_id", "checkpoint", "lease_expiration", "worker_id"}

RECURSIVE NatDecimal(_)
NatDecimal(n) ==
    IF n < 10 THEN <<Digits[n + 1]>>
    ELSE Append(NatDecimal(n \div 10), Digits[(n % 10) + 1])
\* the decimal rendering of an integer, as a caller hands it to Checkpoint
Decimal(e) == IF e < 0 THEN <<"-">> \o NatDecimal(0 - e) ELSE NatDecimal(e)

\* C1: a GetShardData that returns without failure holds an entry for every
\* requested shard that has a stored item and was not written since the
\* invocation began, however the store split the keys over the calls.
C1_Complete ==
    \A w \in Workers :
        Done(w, "GetShardData") /\ err[w] = NoErr =>
            \A s \in Requested(w) :
                items[s] # NoItem /\ s \notin dirty[w] => s \in DOMAIN shardRecords[w]

\* C1 witness: C was reported unprocessed by the first call and serviced by
\* the second, the last: one invocation returns A, B and C.
C1_Witness ==
    \E w \in Workers :
        /\ Done(w, "GetShardData") /\ err[w] = NoErr
        /\ args[w].shards = <<"A", "B", "C">>
        /\ NumCalls(w) = 2
        /\ hist[w][1].keys = {"C"} /\ hist[w][1].unprocessed = {}
        /\ DOMAIN shardRecords[w] = {"A", "B", "C"}

\* C2: whenever a BatchGetItem call of an invocation fails, GetShardData
\* returns the failure with a result mapping that is not populated.
C2_AllOrNothing ==
    \A w \in Workers :
        Done(w, "GetShardData") /\ err[w] # NoErr => shardRecords[w] = EmptyMap

\* C3: GetShardData of an empty list issues no BatchGetItem call and returns
\* an empty mapping without failure.
C3_EmptyListNoCall ==
    \A w \in Workers :
        op[w] = "GetShardData" /\ args[w].shards = <<>> =>
            /\ NumCalls(w) = 0
            /\ pc[w] # "panic"
            /\ pc[w] = "done" => err[w] = NoErr /\ shardRecords[w] = EmptyMap

\* C4: a Checkpoint that reaches a usable table through a working service
\* succeeds whatever is stored, and the item of each shard is the item of the
\* PutItem applied last.
C4_LastWriterWins ==
    /\ \A s \in Shards : items[s] = lastPut[s]
    /\ \A w \in Workers :
           Done(w, "Checkpoint") /\ hist[w][1].err = NoErr /\ hist[w][1].status = "ACTIVE"
               => err[w] = NoErr

\* C4 witness: both workers have written the same shard with success, and the
\* item stored is the one of the second to be applied.
C4_Witness ==
    \E s \in Shards :
        /\ \A w \in Workers :
               Done(w, "Checkpoint") /\ err[w] = NoErr /\ args[w].shardID = s
        /\ \E w \in Workers :
               items[s] = ItemOf(args[w]) /\ items[s]["worker_id"].S = w

\* C5: every shard has no item, or an item with all four fields populated that
\* is, whole, the item of one Checkpoint call.
C5_WholeRecords ==
    \A s \in Shards :
        items[s] = NoItem
        \/ /\ DOMAIN items[s] = Fields
           /\ items[s]["shard_id"].S = s
           /\ items[s]["checkpoint"].S # ""
           /\ items[s]["lease_expiration"].N # <<>>
           /\ items[s]["worker_id"].S # ""
           /\ items[s] \in written

\* C5 witness: two calls that differ in every field but the shard were made
\* for one shard, and its item is one of the two.
C5_Witness ==
    \E s \in Shards : \E i, j \in written :
        /\ i["shard_id"].S = s /\ j["shard_id"].S = s
        /\ i["checkpoint"] # j["checkpoint"]
        /\ i["lease_expiration"] # j["lease_expiration"]
        /\ i["worker_id"] # j["worker_id"] /\ i["worker_id"].S \in Workers
        /\ j["worker_id"].S \in Workers
        /\ items[s] = i
        /\ \A w \in Workers : Done(w, "Checkpoint") /\ err[w] = NoErr

\* C6: GetShardData([S]) that succeeds with no write to S since it began
\* returns exactly one entry, S with the checkpoint, the integer lease
\* expiration and the worker of the Checkpoint applied last.
C6_RoundTrip ==
    \A w \in Workers : \A s \in Shards :
        /\ Done(w, "GetShardData") /\ err[w] = NoErr
        /\ args[w].shards = <<s>> /\ s \notin dirty[w] /\ lastPut[s] # NoItem
        => /\ DOMAIN shardRecords[w] = {s}
           /\ \A e \in (0 - MaxLease)..MaxLease :
                  lastPut[s]["lease_expiration"].N = Decimal(e) =>
                      shardRecords[w][s] =
                          [ShardID |-> s,
                           Checkpoint |-> lastPut[s]["checkpoint"].S,
                           LeaseExpiration |-> e,
                           WorkerID |-> lastPut[s]["worker_id"].S]

\* C6 witness: Checkpoint(A, c, "-3", v) has succeeded, and a GetShardData([A])
\* begun after it has returned A with lease expiration -3.
C6_Witness ==
    \E w, v \in Workers :
        /\ Done(v, "Checkpoint") /\ err[v] = NoErr
        /\ args[v].shardID = "A" /\ args[v].leaseExpiration = Decimal(-3)
        /\ lastPut["A"] = ItemOf(args[v])
        /\ Done(w, "GetShardData") /\ err[w] = NoErr
        /\ args[w].shards = <<"A">> /\ "A" \notin dirty[w]
        /\ DOMAIN shardRecords[w] = {"A"}
        /\ shardRecords[w]["A"].LeaseExpiration = -3

\* C7: the result of GetShardData never holds an entry for a shard without a
\* stored item, nor for a shard that was not requested.
C7_NoPhantom ==
    \A w \in Workers :
        op[w] = "GetShardData" =>
            \A s \in DOMAIN shardRecords[w] : items[s] # NoItem /\ s \in Requested(w)

\* C7 witness: [A, B] requested with only A stored, B serviced in a second
\* call: the result holds A alone.
C7_Witness ==
    \E w \in Workers :
        /\ Done(w, "GetShardData") /\ err[w] = NoErr
        /\ args[w].shards = <<"A", "B">>
        /\ items["A"] # NoItem /\ items["B"] = NoItem
        /\ NumCalls(w) = 2 /\ hist[w][1].keys = {"B"}
        /\ DOMAIN shardRecords[w] = {"A"}

\* C8: ValidateTable issues CreateTable only after a lookup that failed with
\* "resource not found"; after any other lookup failure, and for a table of
\* another schema, it returns a failure having issued the lookup alone.
C8_CreateOnlyOnNotFound ==
    \A w \in Workers :
        op[w] = "ValidateTable" =>
            /\ Calls(w, "CreateTable") # {} => hist[w][1].err = NotFound
            /\ hist[w][1].err \notin {NoErr, NotFound} =>
                   Done(w, "ValidateTable") /\ err[w] = hist[w][1].err /\ Len(hist[w]) = 1
            /\ hist[w][1].err = NoErr /\ table = RangeKeyTable =>
                   Done(w, "ValidateTable") /\ err[w] # NoErr /\ Len(hist[w]) = 1

\* C8 witness: the lookup failed in the service while no table exists, and
\* ValidateTable returned that failure with the table still absent.
C8_Witness ==
    \E w \in Workers :
        /\ Done(w, "ValidateTable") /\ ~table.exists
        /\ hist[w][1].err = Unavailable /\ err[w] = Unavailable

ActiveAt(w, i) == hist[w][i].err = NoErr /\ hist[w][i].status = "ACTIVE"
Created(w) == \E i \in Calls(w, "CreateTable") : hist[w][i].err = NoErr

\* C9: after a successful CreateTable the provisioner returns with the first
\* poll that is answered ACTIVE: such a poll is the last call of the
\* invocation, and the invocation has returned success if and only if its
\* last poll is one.
C9_ReturnsAtFirstActive ==
    \A w \in Workers :
        op[w] = "ValidateTable" =>
            /\ \A i \in Calls(w, "poll") :
                   /\ Created(w)
                   /\ ActiveAt(w, i) => i = Len(hist[w]) /\ pc[w] = "done" /\ err[w] = NoErr
            /\ pc[w] = "done" /\ Created(w) =>
                   Len(hist[w]) \in Calls(w, "poll") /\ ActiveAt(w, Len(hist[w]))

\* C9 witness: the polls were answered CREATING, CREATING, ACTIVE, and the
\* provisioner returned success after exactly three polls.
C9_Witness ==
    \E w \in Workers :
        /\ Done(w, "ValidateTable") /\ err[w] = NoErr
        /\ Len(hist[w]) = 5 /\ Calls(w, "poll") = {3, 4, 5}
        /\ hist[w][3].status = "CREATING" /\ hist[w][4].status = "CREATING"
        /\ hist[w][5].status = "ACTIVE"

\* C10: a failed poll does not end the readiness wait: after it the worker
\* is still waiting or has issued a later poll, and the failure is not the
\* result of ValidateTable.
C10_PollFailureIgnored ==
    \A w \in Workers :
        op[w] = "ValidateTable" =>
            \A i \in Calls(w, "poll") :
                hist[w][i].err # NoErr =>
                    /\ pc[w] = "validateTableCreated" \/ i < Len(hist[w])
                    /\ err[w] = NoErr

\* C10 witness: a poll failed, a later one was answered ACTIVE, and
\* ValidateTable returned success.
C10_Witness ==
    \E w \in Workers :
        /\ Done(w, "ValidateTable") /\ err[w] = NoErr
        /\ \E i \in Calls(w, "poll") : hist[w][i].err = Unavailable /\ i < Len(hist[w])
        /\ ActiveAt(w, Len(hist[w]))

\* C11: when the CreateTable call of a ValidateTable fails, the invocation has
\* returned that failure, and CreateTable is the last call it issued: one
\* CreateTable call, no second one and no poll of the readiness wait.
C11_CreateFailureReturned ==
    \A w \in Workers :
        op[w] = "ValidateTable" =>
            \A i \in Calls(w, "CreateTable") :
                hist[w][i].err # NoErr =>
                    /\ Done(w, "ValidateTable")
                    /\ err[w] = hist[w][i].err
                    /\ i = Len(hist[w])
                    /\ Calls(w, "CreateTable") = {i}
                    /\ Calls(w, "poll") = {}

C11_Witness ==
    \E w \in Workers :
        /\ Done(w, "ValidateTable")
        /\ Len(hist[w]) = 2
        /\ hist[w][1].err = NotFound
        /\ hist[w][2].call = "CreateTable"
        /\ hist[w][2].err = Unavailable
        /\ err[w] = Unavailable
        /\ ~table.exists

\* C12: a Checkpoint that has returned issued one PutItem call and no other
\* call; its err is the one the store answered that call with (none for a
\* write the store applied), and a call the store failed replaced no stored
\* item.
C12_OnePutItem ==
    \A w \in Workers :
        Done(w, "Checkpoint") =>
            /\ Len(hist[w]) = 1
            /\ hist[w][1].call = "PutItem"
            /\ hist[w][1].n = 1
            /\ err[w] = hist[w][1].err
            /\ err[w] # NoErr => hist[w][1].changed = {}

C12_Witness ==
    \E w \in Workers :
        /\ Done(w, "Checkpoint")
        /\ err[w] = Unavailable
        /\ Usable(table)
        /\ items[args[w].shardID] = InitialItem(args[w].shardID)
        /\ hist[w][1].changed = {}

\* the descriptor is present and has one attribute definition, shard_id of
\* type S, and one key-schema entry, shard_id of key type HASH
ExpectedSchema ==
    /\ ~output.nil
    /\ ~output.tableNil
    /\ output.Table.AttributeDefinitions =
           <<[AttributeName |-> "shard_id", AttributeType |-> "S"]>>
    /\ output.Table.KeySchema = <<[AttributeName |-> "shard_id", KeyType |-> "HASH"]>>

\* C13: isValidTableSchema reports valid if and only if the descriptor is
\* present and has exactly one attribute definition, shard_id of string type,
\* and exactly one key-schema entry, shard_id of HASH key type; every other
\* descriptor (nil, without a Table, with more or fewer entries, with another
\* name or type) is reported invalid.
C13_SchemaIff == validSchema # <<>> => (validSchema[1] <=> ExpectedSchema)

\* a table with a range key next to the expected partition key is rejected
C13_Witness ==
    /\ validSchema = <<FALSE>>
    /\ ~output.nil /\ ~output.tableNil
    /\ output.Table.AttributeDefinitions =
           <<[AttributeName |-> "shard_id", AttributeType |-> "S"]>>
    /\ Len(output.Table.KeySchema) = 2
    /\ output.Table.KeySchema[1] = [AttributeName |-> "shard_id", KeyType |-> "HASH"]
    /\ output.Table.KeySchema[2].KeyType = "RANGE"

\* C14: a GetShardData invocation issues a bounded number of BatchGetItem
\* calls whatever the store answers.  The invocation keeps no count of its
\* calls, so a bound there is only if no call of the loop leaves it where it
\* was: after a call that does not end the loop, the keys still to process
\* or the records gathered differ from those before the call.
C14_BoundedCalls ==
    [][\A w \in Workers :
          (pc[w] = "loop" /\ pc'[w] = "loop" /\ hist'[w] # hist[w]) =>
              <<keysToProcess'[w], shardRecords'[w]>> # <<keysToProcess[w], shardRecords[w]>>]_vars

\* C15: in a GetShardData invocation the first BatchGetItem request carries
\* exactly the requested shards as keys; after a response the request to come
\* carries exactly the keys that response reported unprocessed, all of them
\* keys of the request it answered; and the loop goes on after a response if
\* and only if that response reported a key unprocessed, so that it stops at
\* the first response that reports none.
C15_Pagination ==
    \A w \in Workers :
        op[w] = "GetShardData" =>
            /\ NumCalls(w) = 0 =>
                   /\ DOMAIN keysToProcess[w].tables = {TableName}
                   /\ keysToProcess[w].tables[TableName].Keys = Requested(w)
            /\ NumCalls(w) = 1 => hist[w][1].keys = Requested(w)
            /\ NumCalls(w) >= 1 /\ hist[w][1].err = NoErr =>
                   /\ hist[w][1].unprocessed \subseteq hist[w][1].keys
                   /\ pc[w] = "loop" <=> hist[w][1].unprocessed # {}
                   /\ pc[w] = "loop" =>
                          /\ DOMAIN keysToProcess[w].tables = {TableName}
                          /\ keysToProcess[w].tables[TableName].Keys =
                                 hist[w][1].unprocessed

\* three calls for three shards: the third request carries the one key the
\* second response reported unprocessed, and its response reports none
C15_Witness ==
    \E w \in Workers :
        /\ Done(w, "GetShardData")
        /\ err[w] = NoErr
        /\ Requested(w) = {"A", "B", "C"}
        /\ NumCalls(w) = 3
        /\ Cardinality(hist[w][1].keys) = 1
        /\ hist[w][1].unprocessed = {}

\* C16: once the CreateTable of a ValidateTable has succeeded, and the table
\* becomes ACTIVE and the polls of the wait are answered again and again,
\* ValidateTable eventually returns success; and it returns only with a poll
\* answered ACTIVE, so without such a poll it never returns.
C16_WaitEndsWhenActive ==
    /\ \A w \in Workers :
          (op[w] = "ValidateTable" /\ Created(w))
              ~> (Done(w, "ValidateTable") /\ err[w] = NoErr)
    /\ [](\A w \in Workers :
             Done(w, "ValidateTable") /\ Created(w) =>
                 \E i \in Calls(w, "poll") : ActiveAt(w, i))

\* a wait that used every poll the history holds: the first poll failed, no
\* poll before the last was answered ACTIVE, and the wait returned success
C16_Witness ==
    \E w \in Workers :
        /\ Done(w, "ValidateTable") /\ err[w] = NoErr /\ Created(w)
        /\ Cardinality(Calls(w, "poll")) = MaxPolls
        /\ hist[w][3].err = Unavailable
        /\ \A i \in Calls(w, "poll") : ActiveAt(w, i) <=> i = Len(hist[w])

\* C17: whenever ValidateTable has returned without failure the table exists,
\* has the expected schema and is in status ACTIVE.
C17_ReturnsOnlyWhenActive ==
    \A w \in Workers :
        Done(w, "ValidateTable") /\ err[w] = NoErr =>
            /\ table.exists
            /\ table.AttributeDefinitions = tableDefinition.AttributeDefinitions
            /\ table.KeySchema = tableDefinition.KeySchema
            /\ table.TableStatus = "ACTIVE"

\* C18: a ValidateTable that found no table and met no failure of the service
\* returns success: it does not fail because another worker's CreateTable
\* was accepted before its own.
C18_NoFailureFromRace ==
    \A w \in Workers :
        (/\ Done(w, "ValidateTable")
         /\ hist[w][1].err = NotFound
         /\ \A i \in 1..Len(hist[w]) : hist[w][i].err # Unavailable)
            => err[w] = NoErr

\* C20: GetShardData never crashes on a response that succeeded: a response
\* without an UnprocessedKeys map ends the loop and the invocation returns;
\* no worker ever evaluates len(*keysToProcess) on a nil keysToProcess.
C20_NoNilDereference == \A w \in Workers : pc[w] # "panic"

\* the record is the one a reader makes of the item
RecordOf(record, item) ==
    /\ record.ShardID = item["shard_id"].S
    /\ record.Checkpoint = item["checkpoint"].S
    /\ Decimal(record.LeaseExpiration) = item["lease_expiration"].N
    /\ record.WorkerID = item["worker_id"].S

====
